---- MODULE Spec2Model ----
(***************************************************************************)
(* Turn orchestration of the two-agent chess game.                         *)
(*                                                                         *)
(*   run       src/chess/board.py        orchestrator calling the `move`   *)
(*                                       tool of the white / black agent   *)
(*   run_game  src/chess/board_agent.py  orchestrator that first asks a    *)
(*                                       board_agent model who moves next  *)
(*   move_tool src/chess/white/white_agent.py, black/black_agent.py        *)
(*                                       the `move` tool: asks the model   *)
(*                                       for one legal move of a position  *)
(*                                                                         *)
(* Texts are sequences of one-character strings, so that strip(), lower()  *)
(* and the UCI grammar are computed character by character.  python-chess  *)
(* is an external library: the board is a small fragment of chess (two     *)
(* knights shuffling, the pawn and queen moves of the fool's mate) with    *)
(* the halfmove clock scaled down.                                         *)
(***************************************************************************)
EXTENDS Integers, Sequences, FiniteSets, TLC

(***************************************************************************)
(* Bounds of the model (not program constants).                            *)
(***************************************************************************)
\* can_claim_fifty_moves() holds from this halfmove clock on (100 in chess)
FiftyMoveClock == 2
\* the automatic draw of is_game_over() beyond FiftyMoveClock (150 = 100 + 50)
SeventyFiveExtra == 1

SeventyFiveMoveClock == FiftyMoveClock + SeventyFiveExtra

(***************************************************************************)
(* Texts                                                                   *)
(***************************************************************************)
Whitespace == {" ", "\n"}

UpperCase == <<"A", "B", "C", "D", "E", "F", "G", "H", "K", "L", "N", "Q", "R", "T", "W">>
LowerCase == <<"a", "b", "c", "d", "e", "f", "g", "h", "k", "l", "n", "q", "r", "t", "w">>

\* str.lower() on one character
LowerChar(c) ==
    IF \E i \in DOMAIN UpperCase : UpperCase[i] = c
    THEN LowerCase[CHOOSE i \in DOMAIN UpperCase : UpperCase[i] = c]
    ELSE c

\* str.upper() on one character (used to build replies, not by the program)
UpperChar(c) ==
    IF \E i \in DOMAIN LowerCase : LowerCase[i] = c
    THEN UpperCase[CHOOSE i \in DOMAIN LowerCase : LowerCase[i] = c]
    ELSE c

\* str.lower()
Lower(s) == [i \in DOMAIN s |-> LowerChar(s[i])]

Upper(s) == [i \in DOMAIN s |-> UpperChar(s[i])]

RECURSIVE LStrip(_)
LStrip(s) == IF s # <<>> /\ Head(s) \in Whitespace THEN LStrip(Tail(s)) ELSE s

RECURSIVE RStrip(_)
RStrip(s) ==
    IF s # <<>> /\ s[Len(s)] \in Whitespace THEN RStrip(SubSeq(s, 1, Len(s) - 1)) ELSE s

\* str.strip()
Strip(s) == RStrip(LStrip(s))

Files == {"a", "b", "c", "d", "e", "f", "g", "h"}
Ranks == {"1", "2", "3", "4", "5", "6", "7", "8"}
PromotionLetters == {"q", "r", "b", "n"}
\* chess.PIECE_SYMBOLS without its None entry
PieceSymbols == {"p", "n", "b", "r", "q", "k"}

IsSquareAt(s, i) == s[i] \in Files /\ s[i + 1] \in Ranks

\* UCI_PATTERN = ^[a-h][1-8][a-h][1-8][qrbn]?$ applied with match(); the $ also
\* matches before one trailing newline
UciPatternMatchNoNewline(s) ==
    /\ Len(s) \in {4, 5}
    /\ IsSquareAt(s, 1)
    /\ IsSquareAt(s, 3)
    /\ Len(s) = 5 => s[5] \in PromotionLetters

UciPatternMatch(s) ==
    \/ UciPatternMatchNoNewline(s)
    \/ /\ s # <<>>
       /\ s[Len(s)] = "\n"
       /\ UciPatternMatchNoNewline(SubSeq(s, 1, Len(s) - 1))

\* a payload value that is not a str (a JSON number): no text equals it
NotAString == <<"<int>">>

\* chess.Move.from_uci(uci): TRUE when it returns a move, FALSE when it raises
FromUciOk(uci) ==
    /\ uci # NotAString
    /\ \/ uci = <<"0", "0", "0", "0">>
       \/ /\ Len(uci) \in {4, 5}
          /\ IsSquareAt(uci, 1)
          /\ IsSquareAt(uci, 3)
          /\ Len(uci) = 5 => uci[5] \in PieceSymbols
          /\ SubSeq(uci, 1, 2) # SubSeq(uci, 3, 4)

(***************************************************************************)
(* The board (python-chess), restricted to a fragment of the game          *)
(***************************************************************************)
Sides == {"white", "black"}

Other(side) == IF side = "white" THEN "black" ELSE "white"

g1h3 == <<"g", "1", "h", "3">>
h3g1 == <<"h", "3", "g", "1">>
f2f3 == <<"f", "2", "f", "3">>
g2g4 == <<"g", "2", "g", "4">>
g8h6 == <<"g", "8", "h", "6">>
h6g8 == <<"h", "6", "g", "8">>
e7e5 == <<"e", "7", "e", "5">>
d8h4 == <<"d", "8", "h", "4">>

\* chess.Board(): white to move, nothing developed, clock 0
StartBoard ==
    [turn |-> "white", wn |-> FALSE, bn |-> FALSE, wp |-> 0, bp |-> 0,
     halfmove_clock |-> 0, mated |-> FALSE]

is_checkmate(b) == b.mated
is_stalemate(b) == FALSE
is_insufficient_material(b) == FALSE
is_seventyfive_moves(b) == ~b.mated /\ b.halfmove_clock >= SeventyFiveMoveClock
can_claim_fifty_moves(b) == ~b.mated /\ b.halfmove_clock >= FiftyMoveClock
can_claim_threefold_repetition(b) == FALSE

\* board.legal_moves, as the set of the moves' uci() texts
LegalMoves(b) ==
    IF b.mated THEN {}
    ELSE IF b.turn = "white"
    THEN {IF b.wn THEN h3g1 ELSE g1h3}
         \cup (IF b.wp = 0 THEN {f2f3} ELSE IF b.wp = 1 THEN {g2g4} ELSE {})
    ELSE {IF b.bn THEN h6g8 ELSE g8h6}
         \cup (IF b.bp = 0 THEN {e7e5} ELSE {})
         \cup (IF b.bp = 1 /\ b.wp = 2 /\ ~b.wn THEN {d8h4} ELSE {})

\* board.is_game_over()
is_game_over(b) ==
    \/ is_checkmate(b)
    \/ is_stalemate(b)
    \/ is_insufficient_material(b)
    \/ is_seventyfive_moves(b)
    \/ LegalMoves(b) = {}

\* board.push(mv) for a legal mv
Push(b, mv) ==
    LET flipped == [b EXCEPT !.turn = Other(b.turn)] IN
    IF mv \in {g1h3, h3g1}
    THEN [flipped EXCEPT !.wn = ~b.wn, !.halfmove_clock = b.halfmove_clock + 1]
    ELSE IF mv \in {g8h6, h6g8}
    THEN [flipped EXCEPT !.bn = ~b.bn, !.halfmove_clock = b.halfmove_clock + 1]
    ELSE IF mv \in {f2f3, g2g4}
    THEN [flipped EXCEPT !.wp = b.wp + 1, !.halfmove_clock = 0]
    ELSE IF mv = e7e5
    THEN [flipped EXCEPT !.bp = 1, !.halfmove_clock = 0]
    ELSE [flipped EXCEPT !.mated = TRUE, !.halfmove_clock = b.halfmove_clock + 1]

\* board.result()
Result(b) ==
    IF is_checkmate(b) THEN (IF b.turn = "white" THEN "0-1" ELSE "1-0")
    ELSE IF is_game_over(b) THEN "1/2-1/2"
    ELSE "*"

\* the five conditions the summary looks at
Conditions(b) ==
    [checkmate |-> is_checkmate(b), stalemate |-> is_stalemate(b),
     insufficient |-> is_insufficient_material(b),
     fifty |-> can_claim_fifty_moves(b),
     threefold |-> can_claim_threefold_repetition(b)]

\* the chain with its first two tests in the other order
ReasonOf_StalemateFirst(c) ==
    IF c.stalemate THEN "Stalemate"
    ELSE IF c.checkmate THEN "Checkmate"
    ELSE IF c.insufficient THEN "Insufficient material"
    ELSE IF c.fifty THEN "Fifty-move rule"
    ELSE IF c.threefold THEN "Threefold repetition"
    ELSE "Unknown"

\* reason = ("Checkmate" if ... else ... "Unknown")
ReasonOf(c) ==
    IF c.checkmate THEN "Checkmate"
    ELSE IF c.stalemate THEN "Stalemate"
    ELSE IF c.insufficient THEN "Insufficient material"
    ELSE IF c.fifty THEN "Fifty-move rule"
    ELSE IF c.threefold THEN "Threefold repetition"
    ELSE "Unknown"

\* the game_summary span: result and reason
GameSummary(b) == [result |-> Result(b), reason |-> ReasonOf(Conditions(b))]

(***************************************************************************)
(* Replies                                                                 *)
(*                                                                         *)
(* A reply text is described by what the orchestrators read of it:         *)
(*   kind          "empty"  the empty text                                 *)
(*                 "prose"  non-empty text that json.loads rejects         *)
(*                 "object" a JSON object with the one member key: value   *)
(*                 "array"  the JSON array ["uci"]                         *)
(*                 "string" the JSON string "uci"                          *)
(*   mentions_uci  whether the text has the substring 'uci'                *)
(***************************************************************************)
e2e5 == <<"e", "2", "e", "5">>
z9z9 == <<"z", "9", "z", "9">>
a1a1 == <<"a", "1", "a", "1">>

Padded(s) == <<" ">> \o s \o <<"\n">>

\* move texts a provider may put in its reply for position b
CandidateTexts(b) ==
    LegalMoves(b)
    \cup {Upper(m) : m \in LegalMoves(b)}
    \cup {Padded(m) : m \in LegalMoves(b)}
    \cup {e2e5, z9z9, a1a1, <<>>, NotAString}

EmptyContent == [kind |-> "empty", mentions_uci |-> FALSE, key |-> "", value |-> <<>>]

ObjectContent(k, v) ==
    [kind |-> "object", mentions_uci |-> (k = "uci"), key |-> k, value |-> v]

\* the key the orchestrator reads the move from
MoveKey(p) == IF p = "run" THEN "uci" ELSE "move"

\* replies a provider of orchestrator p may give for position b: every move
\* text under the key p reads, and a legal move under the key it does not read
Contents(p, b) ==
    {EmptyContent}
    \cup {[kind |-> "prose", mentions_uci |-> m, key |-> "", value |-> <<>>] : m \in BOOLEAN}
    \cup {[kind |-> "object", mentions_uci |-> m, key |-> "error", value |-> <<>>] :
              m \in BOOLEAN}
    \cup {[kind |-> k, mentions_uci |-> TRUE, key |-> "", value |-> <<>>] :
              k \in {"array", "string"}}
    \cup {ObjectContent(MoveKey(p), v) : v \in CandidateTexts(b)}
    \cup {ObjectContent(MoveKey(IF p = "run" THEN "run_game" ELSE "run"), v) :
              v \in LegalMoves(b)}

NoContent == [kind |-> "none", mentions_uci |-> FALSE, key |-> "", value |-> <<>>]

\* json.loads(content) raises JSONDecodeError
JsonLoadsRaises(c) == c.kind \in {"empty", "prose"}

white == <<"w", "h", "i", "t", "e">>
black == <<"b", "l", "a", "c", "k">>

\* texts the board_agent model may answer when asked who moves next
WhoTexts == {white, black, <<"W">> \o Tail(white), Padded(black), g1h3}

Unbound == <<"<unbound>">>

\* a request states a position and, when it is an augmented request, the text
\* that was rejected and the legal moves; Absent: no such text in the request
Absent == <<"<absent>">>

NoRequest == [fen |-> <<>>, rejected |-> Absent, legal |-> {}]

\* the arguments of call_tool("move", ...): the fen and the model settings
RunRequest(b) == [fen |-> b, rejected |-> Absent, legal |-> {}]

\* the task of player_agent.run: the fen and the output format
GameRequest(b) == [fen |-> b, rejected |-> Absent, legal |-> {}]

\* display.update(board.fen(), game_board) returns (TRUE) or raises (FALSE)
SinkOutcomes == BOOLEAN

(***************************************************************************)
(* State                                                                   *)
(***************************************************************************)
VARIABLES
    prog,            \* which orchestrator runs: "run" or "run_game"
    pc,              \* "loop", "who", "await", "summary", "done", "crashed"
    board,           \* the authoritative chess.Board
    current_name,    \* run: side asked for a move
    other_name,      \* run
    invalid_count,   \* run
    no_retries,      \* run_game
    current_player,  \* run_game: stripped, lower-cased answer of board_agent
    target,          \* side of the agent current_wb points to
    uci,             \* run_game: the local uci (Unbound before its first assignment)
    content,         \* last reply received from the provider
    summaries,       \* the game_summary spans emitted, in order
    exit,            \* how the loop ended: "none", "game_over", "retries", "illegal"
    turn_requests,   \* move requests issued since the last applied move
    turn_classes,    \* kinds of rejected reply seen since the last applied move
    request_failed,  \* the last move request failed (timeout / unreachable)
    request,         \* the move request last sent to a provider
    sink_raised,     \* display.update raised
    conds,           \* summary: what the five condition tests of the board return
    agent,           \* move_tool: the colour of the agent whose tool is called
    fen,             \* move_tool: the fen argument
    legal_uci,       \* move_tool
    prompt,          \* move_tool: the task text of the next model query
    queries,         \* move_tool: calls of agent.run so far
    resp,            \* move_tool: the text of the last model reply
    result           \* move_tool: the returned value

vars ==
    <<prog, pc, board, current_name, other_name, invalid_count, no_retries,
      current_player, target, uci, content, summaries, exit, turn_requests,
      turn_classes, request_failed, request, sink_raised,
      conds, agent, fen, legal_uci, prompt, queries, resp, result>>

max_invalid == 50
MAX_RETRIES_ON_INVALID_MOVE == 5

\* turn_requests counts the requests of a turn whose rejected replies were all of
\* one kind, up to TurnRequestCap; it is held at TurnRequestCap once rejections of
\* different kinds have mixed in the turn
TurnRequestCap == max_invalid + 2

CountRequest(n, classes) ==
    IF Cardinality(classes) > 1 \/ n >= TurnRequestCap THEN TurnRequestCap ELSE n + 1

\* what the other programs' variables hold while an orchestrator runs
tool_vars == <<agent, fen, legal_uci, prompt, queries, resp, result>>

NoPrompt == [kind |-> "none", states_fen |-> FALSE, rejected |-> Absent, legal |-> {}]

NoResult == [kind |-> "none", value |-> <<>>]

InvalidFen == [valid |-> FALSE, position |-> StartBoard]

ToolIdle ==
    /\ agent = "white"
    /\ fen = InvalidFen
    /\ legal_uci = {}
    /\ prompt = NoPrompt
    /\ queries = 0
    /\ resp = <<>>
    /\ result = NoResult

Init ==
    /\ prog \in {"run", "run_game"}
    /\ pc = "loop"
    /\ board = StartBoard
    /\ current_name = "white"
    /\ other_name = "black"
    /\ invalid_count = 0
    /\ no_retries = 0
    /\ current_player = <<>>
    /\ target = "white"
    /\ uci = Unbound
    /\ content = NoContent
    /\ summaries = <<>>
    /\ exit = "none"
    /\ turn_requests = 0
    /\ turn_classes = {}
    /\ request_failed = FALSE
    /\ request = NoRequest
    /\ sink_raised = FALSE
    /\ conds = Conditions(StartBoard)
    /\ ToolIdle

(***************************************************************************)
(* run (board.py)                                                          *)
(***************************************************************************)
\* the loop test with only the mate looked at: the automatic draw is missed
LoopContinues_OnlyCheckmate(b) == ~is_checkmate(b)

\* while not board.is_game_over():
LoopContinues(b) == ~is_game_over(b)

\* if not content or 'uci' not in content:
RawCheckFails(c) == c.kind = "empty" \/ ~c.mentions_uci

\* the reset left out: the counter keeps its value
ResetCount_Kept(n) == n

\* invalid_count = 0 once the raw check has passed (run_game: no_retries=0)
ResetCount(n) == 0

\* the budget test off by one: < in place of <=
RawRetryAllowed_Strict(n) == n < max_invalid

\* if invalid_count <= max_invalid: ... continue
RawRetryAllowed(n) == n <= max_invalid

\* 'uci' in payload, for the payload json.loads returned
UciInPayload(c) ==
    IF c.kind = "object" THEN c.key = "uci" ELSE c.kind \in {"array", "string"}

\* if not payload or 'uci' not in payload:
PayloadCheckFails(c) == ~UciInPayload(c)

\* if invalid_count >= max_invalid: ... break
PayloadAbort(n) == n >= max_invalid

\* payload['uci'] raises TypeError (a list or a str indexed by 'uci')
PayloadIndexRaises(c) == c.kind # "object"

\* the move parsed but not looked up in board.legal_moves
MoveAccepted_NoLegalityCheck(b, u) == FromUciOk(u)

\* mv = chess.Move.from_uci(uci); mv in board.legal_moves
MoveAccepted(b, u) == FromUciOk(u) /\ u \in LegalMoves(b)

\* the swap forgotten
SwapTurns_NoSwap(cur, oth) == <<cur, oth>>

\* current_name, other_name = other_name, current_name
SwapTurns(cur, oth) == <<oth, cur>>

\* continue in place of the break: the turn is asked again after the budget
AfterRawReject_NeverBreak(n) == "loop"

\* continue while the raw-content budget lasts, break after it
AfterRawReject(n) == IF RawRetryAllowed(n) THEN "loop" ELSE "summary"

\* break once the payload budget is used up, continue before
AfterPayloadReject(n) == IF PayloadAbort(n) THEN "summary" ELSE "loop"

\* loop test, and the request of lines 64-87 when the game is not over
RunLoop ==
    /\ prog = "run"
    /\ UNCHANGED <<conds, tool_vars>>
    /\ pc = "loop"
    /\ IF LoopContinues(board)
       THEN /\ pc' = "await"
            /\ target' = current_name
            /\ request' = RunRequest(board)
            /\ turn_requests' = CountRequest(turn_requests, turn_classes)
            /\ exit' = exit
       ELSE /\ pc' = "summary"
            /\ exit' = "game_over"
            /\ UNCHANGED <<target, request, turn_requests>>
    /\ request_failed' = FALSE
    /\ UNCHANGED <<sink_raised, prog, board, current_name, other_name, invalid_count, no_retries,
                   current_player, uci, content, summaries, turn_classes>>

\* the reply c passes every check of lines 93-127
RunAccepts(c) ==
    /\ ~RawCheckFails(c)
    /\ ~JsonLoadsRaises(c)
    /\ ~PayloadCheckFails(c)
    /\ ~PayloadIndexRaises(c)
    /\ MoveAccepted(board, c.value)

\* lines 89-137 on the reply c, display.update returning (sink_ok) or raising
RunValidate(c, sink_ok) ==
    /\ content' = c
    /\ sink_raised' = (RunAccepts(c) /\ ~sink_ok)
    /\ IF RawCheckFails(c)
       THEN /\ invalid_count' = invalid_count + 1
            /\ turn_classes' = turn_classes \cup {"raw"}
            /\ pc' = AfterRawReject(invalid_count + 1)
            /\ exit' = IF RawRetryAllowed(invalid_count + 1) THEN exit ELSE "retries"
            /\ UNCHANGED <<board, current_name, other_name, turn_requests>>
       ELSE IF JsonLoadsRaises(c)
       THEN /\ invalid_count' = ResetCount(invalid_count)
            /\ pc' = "crashed"
            /\ UNCHANGED <<board, current_name, other_name, exit, turn_requests,
                           turn_classes>>
       ELSE IF PayloadCheckFails(c)
       THEN /\ invalid_count' = 1
            /\ turn_classes' = turn_classes \cup {"payload"}
            /\ pc' = AfterPayloadReject(1)
            /\ exit' = IF PayloadAbort(1) THEN "retries" ELSE exit
            /\ UNCHANGED <<board, current_name, other_name, turn_requests>>
       ELSE IF PayloadIndexRaises(c)
       THEN /\ invalid_count' = ResetCount(invalid_count)
            /\ pc' = "crashed"
            /\ UNCHANGED <<board, current_name, other_name, exit, turn_requests,
                           turn_classes>>
       ELSE IF ~MoveAccepted(board, c.value)
       THEN /\ invalid_count' = ResetCount(invalid_count)
            /\ pc' = "summary"
            /\ exit' = "illegal"
            /\ turn_classes' = turn_classes \cup {"illegal"}
            /\ UNCHANGED <<board, current_name, other_name, turn_requests>>
       ELSE /\ invalid_count' = ResetCount(invalid_count)
            /\ board' = Push(board, c.value)
            /\ exit' = exit
            /\ IF sink_ok
               THEN /\ current_name' = SwapTurns(current_name, other_name)[1]
                    /\ other_name' = SwapTurns(current_name, other_name)[2]
                    /\ pc' = "loop"
                    /\ turn_requests' = 0
                    /\ turn_classes' = {}
               ELSE /\ pc' = "crashed"
                    /\ UNCHANGED <<current_name, other_name, turn_requests,
                                   turn_classes>>

\* the awaited call_tool returns a reply
RunReply ==
    /\ prog = "run"
    /\ UNCHANGED <<conds, tool_vars>>
    /\ pc = "await"
    /\ \E c \in Contents(prog, board), sink_ok \in SinkOutcomes : RunValidate(c, sink_ok)
    /\ UNCHANGED <<prog, no_retries, current_player, target, uci, summaries,
                   request_failed, request>>

\* the awaited call_tool fails (timeout, agent unreachable): nothing in run catches
\* an exception, and a workbench that reports the failure as a tool result hands
\* run an error text, which goes through the validation of a reply
RunRequestFails ==
    /\ prog = "run"
    /\ UNCHANGED <<conds, tool_vars>>
    /\ pc = "await"
    /\ request_failed' = TRUE
    /\ \/ /\ pc' = "crashed"
          /\ UNCHANGED <<board, current_name, other_name, invalid_count, content, exit,
                         turn_requests, turn_classes, sink_raised>>
       \/ \E c \in {x \in Contents(prog, board) : x.kind = "prose"} :
              RunValidate(c, TRUE)
    /\ UNCHANGED <<prog, no_retries, current_player, target, uci, summaries, request>>

(***************************************************************************)
(* run_game (board_agent.py)                                               *)
(***************************************************************************)
\* current_player = result.messages[-1].content.strip().lower()
PlayerOf(text) == Lower(Strip(text))

\* if current_player == "white": WHITE_URL else: BLACK_URL
WorkbenchFor(player) == IF player = white THEN "white" ELSE "black"

\* move_data.get("move", "") raises AttributeError (move_data is no dict)
GetRaises(c) == c.kind # "object"

\* move_data.get("move", "")
GetMove(c) == IF c.key = "move" THEN c.value ELSE <<>>

\* .strip().lower() on the value
NormalizeUci(v) == Lower(Strip(v))

\* the budget test off by one: <= in place of <
FormatRetryAllowed_OffByOne(n) == n <= MAX_RETRIES_ON_INVALID_MOVE

\* if no_retries < MAX_RETRIES_ON_INVALID_MOVE:
FormatRetryAllowed(n) == n < MAX_RETRIES_ON_INVALID_MOVE

\* continue while the budget lasts, break after it
AfterFormatReject(n) == IF FormatRetryAllowed(n) THEN "loop" ELSE "summary"

\* the log.error of the except clause formats the local uci: UnboundLocalError
\* when no assignment to uci has happened yet
HandlerRaises(u) == u = Unbound

\* loop test; validate_fen(board.fen()) always passes; then board_agent is asked
GameLoop ==
    /\ prog = "run_game"
    /\ UNCHANGED <<conds, tool_vars>>
    /\ pc = "loop"
    /\ IF LoopContinues(board)
       THEN pc' = "who" /\ exit' = exit
       ELSE pc' = "summary" /\ exit' = "game_over"
    /\ request_failed' = FALSE
    /\ UNCHANGED <<prog, board, current_name, other_name, invalid_count, no_retries,
                   current_player, target, uci, content, summaries, turn_requests,
                   turn_classes, request, sink_raised>>

\* lines 149-181: board_agent's answer picks the workbench, the move is requested
GameWho ==
    /\ prog = "run_game"
    /\ UNCHANGED <<conds, tool_vars>>
    /\ pc = "who"
    /\ \E text \in WhoTexts :
          /\ current_player' = PlayerOf(text)
          /\ target' = WorkbenchFor(PlayerOf(text))
    /\ pc' = "await"
    /\ request' = GameRequest(board)
    /\ turn_requests' = CountRequest(turn_requests, turn_classes)
    /\ UNCHANGED <<prog, board, current_name, other_name, invalid_count, no_retries,
                   uci, content, summaries, exit, turn_classes, request_failed,
                   sink_raised>>

\* board_agent.run raises: nothing in run_game catches it
GameWhoFails ==
    /\ prog = "run_game"
    /\ UNCHANGED <<conds, tool_vars>>
    /\ pc = "who"
    /\ pc' = "crashed"
    /\ UNCHANGED <<prog, board, current_name, other_name, invalid_count, no_retries,
                   current_player, target, uci, content, summaries, exit, turn_requests,
                   turn_classes, request_failed, request, sink_raised>>

\* the except clause of lines 200-208, entered with the local uci = u
GameCaught(u) ==
    /\ uci' = u
    /\ IF HandlerRaises(u)
       THEN /\ pc' = "crashed"
            /\ UNCHANGED <<no_retries, exit, turn_classes>>
       ELSE /\ turn_classes' = turn_classes \cup {"format"}
            /\ no_retries' = IF FormatRetryAllowed(no_retries) THEN no_retries + 1
                                                                ELSE no_retries
            /\ pc' = AfterFormatReject(no_retries)
            /\ exit' = IF FormatRetryAllowed(no_retries) THEN exit ELSE "retries"
    /\ UNCHANGED <<board, turn_requests>>

\* the reply c passes every check of lines 187-221
GameAccepts(c) ==
    /\ ~JsonLoadsRaises(c)
    /\ ~GetRaises(c)
    /\ GetMove(c) # NotAString
    /\ UciPatternMatch(NormalizeUci(GetMove(c)))
    /\ MoveAccepted(board, NormalizeUci(GetMove(c)))

\* lines 186-227 on the reply c, display.update returning (sink_ok) or raising
GameValidate(c, sink_ok) ==
    /\ content' = c
    /\ sink_raised' = (GameAccepts(c) /\ ~sink_ok)
    /\ IF JsonLoadsRaises(c)
       THEN GameCaught(uci)
       ELSE IF GetRaises(c) \/ GetMove(c) = NotAString
       THEN /\ pc' = "crashed"
            /\ UNCHANGED <<board, no_retries, uci, exit, turn_requests, turn_classes>>
       ELSE IF ~UciPatternMatch(NormalizeUci(GetMove(c)))
       THEN GameCaught(NormalizeUci(GetMove(c)))
       ELSE /\ uci' = NormalizeUci(GetMove(c))
            /\ no_retries' = ResetCount(no_retries)
            /\ IF ~MoveAccepted(board, NormalizeUci(GetMove(c)))
               THEN /\ pc' = "summary"
                    /\ exit' = "illegal"
                    /\ turn_classes' = turn_classes \cup {"illegal"}
                    /\ UNCHANGED <<board, turn_requests>>
               ELSE /\ board' = Push(board, NormalizeUci(GetMove(c)))
                    /\ exit' = exit
                    /\ IF sink_ok
                       THEN /\ pc' = "loop"
                            /\ turn_requests' = 0
                            /\ turn_classes' = {}
                       ELSE /\ pc' = "crashed"
                            /\ UNCHANGED <<turn_requests, turn_classes>>

\* the awaited player_agent.run returns its last message
GameReply ==
    /\ prog = "run_game"
    /\ UNCHANGED <<conds, tool_vars>>
    /\ pc = "await"
    /\ \E c \in Contents(prog, board), sink_ok \in SinkOutcomes : GameValidate(c, sink_ok)
    /\ UNCHANGED <<prog, current_name, other_name, invalid_count, current_player,
                   target, summaries, request_failed, request>>

\* the move request fails (timeout, agent unreachable): an exception leaves run_game,
\* or the player model, reflecting on the failed tool call, answers some text
GameRequestFails ==
    /\ prog = "run_game"
    /\ UNCHANGED <<conds, tool_vars>>
    /\ pc = "await"
    /\ request_failed' = TRUE
    /\ \/ /\ pc' = "crashed"
          /\ UNCHANGED <<board, no_retries, uci, content, exit, turn_requests,
                         turn_classes, sink_raised>>
       \/ \E c \in Contents(prog, board), sink_ok \in SinkOutcomes :
              GameValidate(c, sink_ok)
    /\ UNCHANGED <<prog, current_name, other_name, invalid_count, current_player,
                   target, summaries, request>>

\* the game_summary span after the loop
Summary ==
    /\ pc = "summary"
    /\ UNCHANGED <<conds, tool_vars>>
    /\ summaries' = Append(summaries, GameSummary(board))
    /\ pc' = "done"
    /\ UNCHANGED <<prog, board, current_name, other_name, invalid_count, no_retries,
                   current_player, target, uci, content, exit, turn_requests,
                   turn_classes, request_failed, request, sink_raised>>

Next ==
    \/ RunLoop
    \/ RunReply
    \/ RunRequestFails
    \/ GameLoop
    \/ GameWho
    \/ GameWhoFails
    \/ GameReply
    \/ GameRequestFails
    \/ Summary

Spec == Init /\ [][Next]_vars

\* the event loop always resumes the one coroutine: an awaited call returns or
\* fails, and every other step is ordinary sequential code
FairSpec == Spec /\ WF_vars(Next)

(***************************************************************************)
(* The reason of the game summary, for every outcome of the five tests     *)
(***************************************************************************)
ConditionSets ==
    [checkmate : BOOLEAN, stalemate : BOOLEAN, insufficient : BOOLEAN,
     fifty : BOOLEAN, threefold : BOOLEAN]

\* the orchestrator has left its loop and the five tests return conds
ReasonInit ==
    /\ prog \in {"run", "run_game"}
    /\ pc = "summary"
    /\ conds \in ConditionSets
    /\ board = StartBoard
    /\ current_name = "white"
    /\ other_name = "black"
    /\ invalid_count = 0
    /\ no_retries = 0
    /\ current_player = <<>>
    /\ target = "white"
    /\ uci = Unbound
    /\ content = NoContent
    /\ summaries = <<>>
    /\ exit = "none"
    /\ turn_requests = 0
    /\ turn_classes = {}
    /\ request_failed = FALSE
    /\ request = NoRequest
    /\ sink_raised = FALSE
    /\ ToolIdle

\* the game_summary span, its reason computed from the outcomes of the tests
ReasonSummary ==
    /\ pc = "summary"
    /\ summaries' = Append(summaries, [result |-> Result(board), reason |-> ReasonOf(conds)])
    /\ pc' = "done"
    /\ UNCHANGED <<prog, board, current_name, other_name, invalid_count, no_retries,
                   current_player, target, uci, content, exit, turn_requests,
                   turn_classes, request_failed, request, sink_raised, conds, tool_vars>>

ReasonNext == ReasonSummary

ReasonSpec == ReasonInit /\ [][ReasonNext]_vars

(***************************************************************************)
(* move_tool (white_agent.py, black_agent.py)                              *)
(***************************************************************************)
MAX_NUMBER_OF_RETRIES == 5

e2e9 == <<"e", "2", "e", "9">>

\* str.split(): the whitespace-delimited tokens of s, in order
RECURSIVE Split(_)
Split(s) ==
    LET t == LStrip(s) IN
    IF t = <<>> THEN <<>>
    ELSE LET n == CHOOSE k \in 1..Len(t) :
                      /\ \A i \in 1..k : t[i] \notin Whitespace
                      /\ k = Len(t) \/ t[k + 1] \in Whitespace
         IN <<SubSeq(t, 1, n)>> \o Split(SubSeq(t, n + 1, Len(t)))

\* .strip().split()[0] raises IndexError: the reply has no token
IndexRaises(r) == Split(Strip(r)) = <<>>

\* uci = resp.messages[-1].content.strip().split()[0].lower()
CandidateOf(r) == Lower(Split(Strip(r))[1])

\* the acceptance test without the membership test
ReplyAccepted_Always(u, legal) == TRUE

\* if uci in legal_uci
ReplyAccepted(u, legal) == u \in legal

\* the turn test left out
OwnTurn_Any(a, b) == TRUE

\* white: if not board.turn -> error; black: if board.turn -> error
OwnTurn(a, b) == b.turn = a

\* for _ in range(MAX_NUMBER_OF_RETRIES): another iteration after n of them
LoopGoesOn(n) == n < MAX_NUMBER_OF_RETRIES

ErrorResult(text) == [kind |-> "error", value |-> text]

MoveResult(u) == [kind |-> "uci", value |-> u]

\* return after the loop: white names no move, black names the last candidate
GiveUpResult(a, u) ==
    IF a = "white" THEN ErrorResult(<<"illegal move (max retries exceeded)">>)
    ELSE ErrorResult(<<"illegal move ">> \o u)

\* the first prompt: the fen and ", ".join(legal_uci)
FirstPrompt(legal) ==
    [kind |-> "first", states_fen |-> TRUE, rejected |-> Absent, legal |-> legal]

\* the feedback prompt: "That move:{uci} ..." and ", ".join(legal_uci)
FeedbackPrompt(u, legal) ==
    [kind |-> "feedback", states_fen |-> FALSE, rejected |-> u, legal |-> legal]

\* the fool's mate: white to move and mated
MatedBoard == Push(Push(Push(Push(StartBoard, f2f3), e7e5), g2g4), d8h4)

\* a position with black to move and mated
BlackMatedBoard == [MatedBoard EXCEPT !.turn = "black"]

ToolPositions ==
    {StartBoard, Push(StartBoard, g1h3), Push(StartBoard, f2f3),
     Push(Push(StartBoard, g1h3), g8h6), MatedBoard, BlackMatedBoard}

\* the fen arguments a caller may pass
ToolFens == {InvalidFen} \cup {[valid |-> TRUE, position |-> b] : b \in ToolPositions}

\* texts the model may reply with
ModelReplies(legal) ==
    legal
    \cup {Upper(m) : m \in legal}
    \cup {Padded(m) : m \in legal}
    \cup {m \o <<" ">> \o e2e9 : m \in legal}
    \cup {e2e9 \o <<" ">> \o m : m \in legal}
    \cup {e2e9, Upper(e2e9), <<>>, <<" ">>}

ToolInit ==
    /\ prog = "move_tool"
    /\ pc = "start"
    /\ agent \in Sides
    /\ fen \in ToolFens
    /\ legal_uci = {}
    /\ prompt = NoPrompt
    /\ queries = 0
    /\ resp = <<>>
    /\ result = NoResult
    /\ board = StartBoard
    /\ uci = Unbound
    /\ current_name = "white"
    /\ other_name = "black"
    /\ invalid_count = 0
    /\ no_retries = 0
    /\ current_player = <<>>
    /\ target = "white"
    /\ content = NoContent
    /\ summaries = <<>>
    /\ exit = "none"
    /\ turn_requests = 0
    /\ turn_classes = {}
    /\ request_failed = FALSE
    /\ request = NoRequest
    /\ sink_raised = FALSE
    /\ conds = Conditions(StartBoard)

\* the variables of the orchestrators, which move_tool does not have
orchestrator_vars ==
    <<prog, current_name, other_name, invalid_count, no_retries, current_player,
      target, content, summaries, exit, turn_requests, turn_classes, request_failed,
      request, sink_raised, conds>>

\* from the call to the first prompt, or to the early return of an error
ToolStart ==
    /\ prog = "move_tool"
    /\ pc = "start"
    /\ IF ~fen.valid
       THEN /\ result' = ErrorResult(<<"Invalid FEN">>)
            /\ pc' = "returned"
            /\ UNCHANGED <<board, legal_uci, prompt>>
       ELSE /\ board' = fen.position
            /\ IF ~OwnTurn(agent, fen.position)
               THEN /\ result' = ErrorResult(<<"not this side's turn">>)
                    /\ pc' = "returned"
                    /\ UNCHANGED <<legal_uci, prompt>>
               ELSE /\ legal_uci' = LegalMoves(fen.position)
                    /\ IF legal_uci' = {}
                       THEN /\ result' = ErrorResult(<<"no legal moves">>)
                            /\ pc' = "returned"
                            /\ prompt' = prompt
                       ELSE /\ prompt' = FirstPrompt(legal_uci')
                            /\ pc' = "query"
                            /\ result' = result
    /\ UNCHANGED <<agent, fen, queries, resp, uci, orchestrator_vars>>

\* one iteration of the loop: the model is queried and its reply is judged
ToolQuery ==
    /\ prog = "move_tool"
    /\ pc = "query"
    /\ \E r \in ModelReplies(legal_uci) :
         /\ resp' = r
         /\ queries' = queries + 1
         /\ IF IndexRaises(r)
            THEN /\ pc' = "crashed"
                 /\ UNCHANGED <<uci, prompt, result>>
            ELSE /\ uci' = CandidateOf(r)
                 /\ IF ReplyAccepted(uci', legal_uci)
                    THEN /\ result' = MoveResult(uci')
                         /\ pc' = "returned"
                         /\ prompt' = prompt
                    ELSE /\ prompt' = FeedbackPrompt(uci', legal_uci)
                         /\ IF LoopGoesOn(queries')
                            THEN pc' = "query" /\ result' = result
                            ELSE pc' = "returned" /\ result' = GiveUpResult(agent, uci')
    /\ UNCHANGED <<agent, fen, legal_uci, board, orchestrator_vars>>

ToolNext ==
    \/ ToolStart
    \/ ToolQuery

ToolSpec == ToolInit /\ [][ToolNext]_vars

(***************************************************************************)
(* Properties                                                              *)
(***************************************************************************)
RetryBudget(p) == IF p = "run" THEN max_invalid ELSE MAX_RETRIES_ON_INVALID_MOVE

\* the retry counter of the running orchestrator
RetryCounter == IF prog = "run" THEN invalid_count ELSE no_retries

\* the move text the running orchestrator takes from the reply c
MoveTextOf(c) == IF c.kind = "object" /\ c.key = MoveKey(prog) THEN c.value ELSE <<>>

\* c carries, under the key that is read, a move in the UCI grammar that is not
\* legal in position b
WellFormedIllegal(b, c) ==
    /\ c.kind = "object"
    /\ c.key = MoveKey(prog)
    /\ c.value # NotAString
    /\ UciPatternMatchNoNewline(c.value)
    /\ c.value \notin LegalMoves(b)

\* a reply arrives (the request did not fail) in this step
ReplyArrives == pc = "await" /\ ~request_failed' /\ pc' # "await"

Aborted == exit \in {"retries", "illegal"}

\* C1: whatever the two providers reply, run eventually leaves its loop and has
\* emitted the game summary exactly once.
C1_RunEndsWithOneSummary ==
    (prog = "run") => <>(pc = "done" /\ Len(summaries) = 1)

\* C2: in both loops the board changes only by the push of the move that was just
\* received and is in the legal-move set of the position it is applied to; a step
\* that rejects, retries, aborts or fails leaves the board as it was.
C2_BoardChangesOnlyByLegalPush ==
    [][board' # board =>
         /\ pc = "await"
         /\ LET mv == IF prog = "run" THEN MoveTextOf(content') ELSE uci' IN
                mv \in LegalMoves(board) /\ board' = Push(board, mv)
         /\ pc' = (IF sink_raised' THEN "crashed" ELSE "loop")
         /\ exit' = "none"]_vars

\* C2 witness: run_game applied a move, and a later reply that was aborted on left
\* the board where it was.
C2_Witness ==
    /\ prog = "run_game"
    /\ board # StartBoard
    /\ exit = "illegal"
    /\ pc = "done"

\* C3: in run the asked side starts at white and is swapped in exactly the steps
\* that apply a move and go on to the next loop entry, so it alternates over the
\* accepted moves; a move request is sent to the agent of the asked side.
C3_SideSwapsExactlyOnAccept ==
    /\ (prog = "run" => current_name = "white")
    /\ [][prog = "run" =>
            /\ (current_name' # current_name) <=> (board' # board /\ pc' = "loop")
            /\ current_name' # current_name => current_name' = Other(current_name)
            /\ pc' = "await" => target' = current_name]_vars

\* C3 witness: run is asking black again after a rejected reply of black.
C3_Witness ==
    /\ prog = "run"
    /\ pc = "await"
    /\ current_name = "black"
    /\ turn_requests = 2
    /\ board # StartBoard

C5_ExhaustedBudgetEndsGame ==
    /\ [][exit' = "retries" /\ exit # "retries" =>
            /\ pc' = "summary"
            /\ board' = board
            /\ current_name' = current_name]_vars
    /\ [][exit = "retries" =>
            /\ pc' \in {"summary", "done"}
            /\ board' = board
            /\ current_name' = current_name
            /\ target' = target
            /\ turn_requests' = turn_requests]_vars

\* C5 witness: run used up max_invalid retries in black's turn and stopped.
C5_Witness ==
    /\ prog = "run"
    /\ exit = "retries"
    /\ invalid_count = max_invalid + 1
    /\ current_name = "black"
    /\ pc = "done"

NaturalReasons ==
    {"Checkmate", "Stalemate", "Insufficient material", "Fifty-move rule",
     "Threefold repetition"}

\* C6: the summary of an aborted game records a result tagged Aborted and a reason
\* that no naturally finished game is summarised with.
C6_AbortIsRecordedAsAborted ==
    (Aborted /\ pc = "done") =>
        /\ summaries[1].result = "Aborted"
        /\ summaries[1].reason \notin NaturalReasons

\* C7: a move request that fails aborts the game at once: no retry is consumed,
\* the board is unchanged, and the summary that follows records ProviderTimeout.
C7_FailedRequestAbortsWithTimeout ==
    request_failed =>
        /\ pc \in {"summary", "done"}
        /\ RetryCounter = 0
        /\ pc = "done" => summaries[1].reason = "ProviderTimeout"

\* C8: no request (to board_agent or to a provider) is outstanding for a position
\* in which the game is over, and the loop entry of such a position goes straight
\* to the summary.
C8_NoRequestWhenGameOver ==
    /\ [](pc \in {"who", "await"} => ~is_game_over(board) /\ LegalMoves(board) # {})
    /\ [][pc = "loop" /\ is_game_over(board) =>
            pc' = "summary" /\ turn_requests' = turn_requests]_vars

\* C8 witness: the loop was left for a checkmate position without any request
\* having been issued for it.
C8_Witness ==
    /\ is_checkmate(board)
    /\ LegalMoves(board) = {}
    /\ exit = "game_over"
    /\ turn_requests = 0
    /\ pc = "summary"

\* a structurally malformed reply for run_game: no JSON, JSON without a 'move'
\* field, or a 'move' text outside the UCI grammar
GameMalformed(c) ==
    \/ JsonLoadsRaises(c)
    \/ /\ c.kind = "object"
       /\ \/ c.key # "move"
          \/ c.value # NotAString /\ ~UciPatternMatch(NormalizeUci(c.value))

\* C9: run_game handles every structurally malformed reply inside the loop: it is
\* retried or the game is aborted, and run_game never ends by an exception on it.
C9_MalformedReplyIsHandled ==
    [][prog = "run_game" /\ ReplyArrives /\ GameMalformed(content') =>
          pc' \in {"loop", "summary"}]_vars

\* C10: run_game sends every move request to the agent of the side to move in the
\* position, whatever board_agent answered.
C10_RequestGoesToSideToMove ==
    (prog = "run_game" /\ pc = "await") => target = board.turn

\* C11: a move request re-sent after a rejected reply is an augmented request: it
\* states the text that was just rejected and lists the legal moves of the position.
C11_RetryRequestIsAugmented ==
    (pc = "await" /\ turn_requests >= 2) =>
        /\ request.rejected # Absent
        /\ request.legal = LegalMoves(board)

\* C12: run_game never applies a move read from a reply whose move text is not
\* already in the canonical lowercase encoding: such a reply leaves the board as
\* it was.
C12_NoAutoCorrection ==
    [][(prog = "run_game" /\ ReplyArrives /\ content'.kind = "object"
            /\ content'.key = "move" /\ Lower(content'.value) # content'.value)
          => board' = board]_vars

\* C13: a failure of the presentation sink does not alter control flow: after
\* display.update raised, the orchestrator is still on its way to the next loop
\* entry or to the summary.
C13_SinkFailureIsSwallowed ==
    sink_raised => pc \in {"loop", "who", "await", "summary", "done"}

\* a reply for run_game that is valid JSON with a 'move' text outside the UCI
\* grammar
SyntacticallyInvalid(c) ==
    /\ c.kind = "object"
    /\ c.key = "move"
    /\ c.value # NotAString
    /\ ~UciPatternMatch(NormalizeUci(c.value))

\* C19: in run_game each reply with a syntactically invalid move is charged one
\* retry and leaves the board unchanged; it is re-requested while fewer than
\* MAX_RETRIES_ON_INVALID_MOVE retries are spent, and the game is aborted on the
\* reply after that: an abort by exhaustion comes with exactly
\* MAX_RETRIES_ON_INVALID_MOVE retry requests after the first request of the turn.
C19_InvalidSyntaxChargedOneRetry ==
    /\ [](prog = "run_game" /\ exit = "retries" =>
            /\ turn_requests = MAX_RETRIES_ON_INVALID_MOVE + 1
            /\ no_retries = MAX_RETRIES_ON_INVALID_MOVE)
    /\ [][prog = "run_game" /\ ReplyArrives /\ SyntacticallyInvalid(content') =>
            /\ board' = board
            /\ IF no_retries < MAX_RETRIES_ON_INVALID_MOVE
               THEN no_retries' = no_retries + 1 /\ pc' = "loop" /\ exit' = exit
               ELSE no_retries' = no_retries /\ pc' = "summary" /\ exit' = "retries"]_vars

\* C19 witness: black's provider answered z9z9 six times in a row and the game was
\* aborted.
C19_Witness ==
    /\ prog = "run_game"
    /\ exit = "retries"
    /\ content = ObjectContent("move", z9z9)
    /\ turn_requests = MAX_RETRIES_ON_INVALID_MOVE + 1
    /\ board.turn = "black"
    /\ pc = "done"

\* C20: in run a turn whose replies are all empty or without the text 'uci' is
\* re-requested after each of the first max_invalid such replies and aborted on the
\* next one, the asked side and the board staying the same.
C20_RawRejectsRetriedMaxInvalidTimes ==
    /\ [](prog = "run" /\ exit = "retries" /\ turn_classes = {"raw"} =>
            /\ turn_requests = max_invalid + 1
            /\ invalid_count = max_invalid + 1)
    /\ [][(prog = "run" /\ ReplyArrives /\ RawCheckFails(content')
             /\ turn_classes \subseteq {"raw"}) =>
            /\ pc' = (IF turn_requests <= max_invalid THEN "loop" ELSE "summary")
            /\ current_name' = current_name
            /\ target' = target
            /\ board' = board]_vars

\* C20 witness: white's agent, asked again after black's move was applied, sent
\* max_invalid + 1 replies without 'uci' and the game was aborted.
C20_Witness ==
    /\ prog = "run"
    /\ exit = "retries"
    /\ turn_classes = {"raw"}
    /\ turn_requests = max_invalid + 1
    /\ current_name = "white"
    /\ board # StartBoard
    /\ pc = "summary"

\* the outcomes of the five tests, in the order of the reference precedence
ReasonOrder ==
    <<"Checkmate", "Stalemate", "Insufficient material", "Fifty-move rule",
      "Threefold repetition">>

Holds(c, i) ==
    CASE i = 1 -> c.checkmate
      [] i = 2 -> c.stalemate
      [] i = 3 -> c.insufficient
      [] i = 4 -> c.fifty
      [] OTHER -> c.threefold

\* the first condition of ReasonOrder that holds, "Unknown" when none does
ReferenceReason(c) ==
    IF \E i \in DOMAIN ReasonOrder : Holds(c, i)
    THEN ReasonOrder[CHOOSE i \in DOMAIN ReasonOrder :
                         Holds(c, i) /\ \A j \in 1..(i - 1) : ~Holds(c, j)]
    ELSE "Unknown"

\* C14: for every combination of the five conditions, the reason reported in the
\* game summary of either orchestrator is the first condition that holds in the
\* order Checkmate, Stalemate, Insufficient material, Fifty-move rule, Threefold
\* repetition, and "Unknown" when none holds.
C14_ReasonFollowsPrecedence ==
    (pc = "done" /\ Len(summaries) = 1) =>
        summaries[1].reason = ReferenceReason(conds)

\* C14 witness: run_game reported Checkmate although stalemate and threefold
\* repetition were signalled too.
C14_Witness ==
    /\ prog = "run_game"
    /\ pc = "done"
    /\ conds.checkmate /\ conds.stalemate /\ conds.threefold
    /\ Len(summaries) = 1
    /\ summaries[1].reason = "Checkmate"

\* C15: a move returned by move_tool is a legal move of the position of the fen
\* argument, and the side to move in that position is the agent's own colour.
C15_ReturnedMoveIsLegal ==
    (prog = "move_tool" /\ result.kind = "uci") =>
        /\ fen.valid
        /\ result.value \in LegalMoves(fen.position)
        /\ fen.position.turn = agent

\* C15 witness: the black agent's tool returned a legal black move after it had
\* rejected earlier replies.
C15_Witness ==
    /\ prog = "move_tool"
    /\ agent = "black"
    /\ pc = "returned"
    /\ result = MoveResult(e7e5)
    /\ queries = 3
    /\ prompt.kind = "feedback"

\* C16: a call of move_tool in which no model reply was a legal move has queried
\* the model exactly MAX_NUMBER_OF_RETRIES times when it is over, and it is over
\* by the return of an error result; the model is never queried more often.
C16_NeverLegalQueriedMaxTimes ==
    /\ (prog = "move_tool" => queries <= MAX_NUMBER_OF_RETRIES)
    /\ (prog = "move_tool" /\ pc \in {"returned", "crashed"} /\ queries >= 1
          /\ result.kind # "uci") =>
            /\ queries = MAX_NUMBER_OF_RETRIES
            /\ pc = "returned"
            /\ result.kind = "error"

\* the first token of the reply as the model wrote it
RawCandidate(r) == Split(Strip(r))[1]

\* C17: a prompt sent after a rejected attempt contains the text that was rejected
\* in that attempt and the complete list of the legal moves of the position.
C17_FeedbackStatesRejectedText ==
    (prog = "move_tool" /\ pc = "query" /\ queries >= 1) =>
        /\ prompt.kind = "feedback"
        /\ prompt.rejected = RawCandidate(resp)
        /\ prompt.legal = LegalMoves(fen.position)

\* C18: the validation of a model reply is total: whatever the reply, the attempt
\* ends accepted or rejected, and move_tool is not ended by an exception.
C18_ValidationIsTotal ==
    prog = "move_tool" => pc # "crashed"

\* C21: in run, at a loop entry after k consecutive replies of the current turn
\* rejected by the raw-content check or by the decoded-payload check, invalid_count
\* equals k.
C21_InvalidCountCountsRejections ==
    (prog = "run" /\ pc = "loop" /\ turn_classes \subseteq {"raw", "payload"}
       /\ Cardinality(turn_classes) <= 1 /\ turn_requests < TurnRequestCap) =>
        invalid_count = turn_requests

\* C22: the retry counter of either orchestrator is zero whenever the first request
\* of a turn is about to be issued or has just been issued, and every step that
\* applies a move leaves both counters at zero.
C22_CounterZeroAtFirstRequest ==
    /\ []((prog \in {"run", "run_game"} /\ pc \in {"loop", "who"} /\ turn_requests = 0)
            => RetryCounter = 0)
    /\ []((prog \in {"run", "run_game"} /\ pc = "await" /\ turn_requests = 1)
            => RetryCounter = 0)
    /\ [][(prog \in {"run", "run_game"} /\ board' # board)
            => (invalid_count' = 0 /\ no_retries' = 0)]_vars

\* C22 witness: run_game has issued the first request of white's second turn, two
\* moves applied, with no_retries at zero.
C22_Witness ==
    /\ prog = "run_game"
    /\ pc = "await"
    /\ turn_requests = 1
    /\ board.turn = "white"
    /\ board # StartBoard
    /\ no_retries = 0

\* C23: in run, at every move request current_name is "white" exactly when the
\* board's side to move is white, and the request goes to that side's agent.
C23_NameInStepWithBoard ==
    (prog = "run" /\ pc = "await") =>
        /\ (current_name = "white") <=> (board.turn = "white")
        /\ other_name = Other(current_name)
        /\ target = current_name

\* C23 witness: run asks black for the third time in black's turn, after two
\* rejected replies.
C23_Witness ==
    /\ prog = "run"
    /\ pc = "await"
    /\ current_name = "black"
    /\ board.turn = "black"
    /\ turn_requests = 3
    /\ invalid_count = 2

\* C24: in move_tool only the first whitespace-delimited token of the model reply
\* is the candidate move: an attempt is accepted exactly when that token is in the
\* legal-move list, whatever follows it, and a legal move in a later token does
\* not make the attempt accepted.
C24_OnlyFirstTokenIsCandidate ==
    [][(prog = "move_tool" /\ pc = "query" /\ pc' # "crashed") =>
          ((result'.kind = "uci") <=> (RawCandidate(resp') \in legal_uci))]_vars

\* the call gets no further than the checks before the first prompt
EarlyError ==
    \/ ~fen.valid
    \/ fen.position.turn # agent
    \/ LegalMoves(fen.position) = {}

\* C25: when the fen is invalid, the side to move is not the agent's colour or the
\* position has no legal moves, move_tool never queries the model and returns an
\* error result.
C25_NoQueryOnEarlyError ==
    (prog = "move_tool" /\ EarlyError) =>
        /\ queries = 0
        /\ pc \in {"start", "returned"}
        /\ pc = "returned" => result.kind = "error"

\* C25 witness: the black agent's tool was called with a position in which black
\* is mated and returned an error without a query.
C25_Witness ==
    /\ prog = "move_tool"
    /\ agent = "black"
    /\ fen.valid
    /\ fen.position.turn = "black"
    /\ LegalMoves(fen.position) = {}
    /\ pc = "returned"
    /\ result.kind = "error"
    /\ queries = 0

====
